---- MODULE Spec2Model ----
(***************************************************************************)
(* Model of the mail cache (MailCache, an SQLite table) and of the         *)
(* incremental sync / delete flows of MailGUI in src/mailgui.py.           *)
(*                                                                         *)
(* SpecCache drives the five MailCache operations with arbitrary inputs.   *)
(***************************************************************************)
EXTENDS Integers, Sequences, FiniteSets, TLC

VARIABLES
    emails,        \* the table "emails" as self.conn reads it: rows in ascending rowid order
    last_call,     \* history: the MailCache write call made last
    first_written, \* history: key -> the row of the first store since the key was absent
    inserted,      \* history: the keys held, in the order of their INSERTs
    protocol,      \* cfg["recv_protocol"]
    uidl,          \* whether the POP3 server answers UIDL
    remote,        \* the server: folder -> its messages in arrival order
    messages,      \* self.messages
    tree,          \* the rows of the Treeview as last rendered
    current_folder, \* self.current_folder
    folder_var,    \* the folder selector's value
    selected_idx,  \* self._selected_idx (0-based, -1 for none)
    selected_uid,  \* history: the uid of the row _on_select last selected
    buttons,       \* state of the toolbar buttons
    started,       \* whether run() has entered the main loop
    after_queue,   \* callbacks handed to root.after, oldest first
    sync,          \* the _fetch_thread threads
    nsync,         \* how many _fetch_thread threads were started
    del,           \* the _delete_thread thread
    done,          \* history: how a sync or a delete ended, in the state it ended in
    msg_cache,     \* self._msg_cache: uid -> the raw bytes of the parsed message
    search_var,    \* the text of the search box, a sequence of characters
    crypto,        \* the key file, and history: the last password call
    conn,          \* self.lock and the calls running on self.conn, per thread
    http,          \* history: the last MsgClient request and what it gave
    detail         \* history: what a selection resolved, in the state it resolved it

cache_vars == <<emails, last_call, first_written, inserted>>

gui_vars ==
    <<protocol, uidl, remote, messages, tree, current_folder, folder_var,
      selected_idx, selected_uid, buttons, started, after_queue, sync, nsync, del, done,
      msg_cache, search_var, crypto, conn, http, detail>>

vars == <<cache_vars, gui_vars>>

(***************************************************************************)
(* Bounds                                                                  *)
(***************************************************************************)
MaxRows == 2      \* rows the table may hold
MaxBatch == 2     \* rows of one store_batch call

Accounts == {"a1", "a2"}
Folders == {"INBOX", "Sent"}
Uids == {"1", "2"}
Versions == {1, 2}

\* Python's None (a NULL in the raw column)
None == "<None>"

(***************************************************************************)
(* Rows                                                                    *)
(***************************************************************************)
\* One element of the list given to store_batch:
\* (uid, flags, from_addr, subject, date_str, raw).  Version 1 and version 2
\* of a uid differ in every column; version 2 carries no raw bytes.  Uid "1"
\* comes in both versions, uid "2" in version 1.
Message(u, v) ==
    [uid |-> u,
     flags |-> IF v = 1 THEN "" ELSE "\\Seen",
     from_addr |-> IF v = 1 THEN "a@x.com" ELSE "b@y.com",
     subject |-> IF v = 1 THEN "Hi" ELSE "Yo",
     date_str |-> IF v = 1 THEN "2026-01-01" ELSE "2026-01-02",
     raw |-> IF v = 1 THEN "raw1" ELSE None]

Messages == {Message("1", v) : v \in Versions} \cup {Message("2", 1)}

Batches == UNION {[1..n -> Messages] : n \in 0..MaxBatch}

\* msg.get("Date", "") of a Date header with raw 8-bit bytes: an
\* email.header.Header object, which sqlite3 cannot bind to a parameter
Header == "<email.header.Header>"

Unbindable(m) == m.date_str = Header

\* the lists given to store_batch when such a header can occur
HeaderBatches ==
    UNION {[1..n -> Messages \cup {[Message("2", 1) EXCEPT !.date_str = Header]}] :
               n \in 0..MaxBatch}

\* the elements of batch that are bound before one cannot be
Bound(batch) ==
    SubSeq(batch, 1,
           IF \E i \in 1..Len(batch) : Unbindable(batch[i])
           THEN (CHOOSE i \in 1..Len(batch) :
                     /\ Unbindable(batch[i])
                     /\ \A j \in 1..(i - 1) : ~Unbindable(batch[j])) - 1
           ELSE Len(batch))

\* (account, folder, *m): the parameters bound to one INSERT
TableRow(account, folder, m) ==
    [account |-> account, folder |-> folder, uid |-> m.uid, flags |-> m.flags,
     from_addr |-> m.from_addr, subject |-> m.subject, date_str |-> m.date_str,
     raw |-> m.raw]

\* PRIMARY KEY (account, folder, uid)
PrimaryKey(row) == <<row.account, row.folder, row.uid>>

Keys == Accounts \X Folders \X Uids

HasKey(db, key) == \E i \in 1..Len(db) : PrimaryKey(db[i]) = key

RowOf(db, key) == db[CHOOSE i \in 1..Len(db) : PrimaryKey(db[i]) = key]

RECURSIVE SelectWhere(_, _, _)
\* the rows of db with the given account and folder, in ascending rowid order
SelectWhere(db, account, folder) ==
    IF db = <<>> THEN <<>>
    ELSE IF Head(db).account = account /\ Head(db).folder = folder
         THEN <<Head(db)>> \o SelectWhere(Tail(db), account, folder)
         ELSE SelectWhere(Tail(db), account, folder)

Range(s) == {s[i] : i \in 1..Len(s)}

RECURSIVE Reverse(_)
Reverse(s) == IF s = <<>> THEN <<>> ELSE Reverse(Tail(s)) \o <<Head(s)>>

ListRow(row) ==
    [uid |-> row.uid, flags |-> row.flags, from_addr |-> row.from_addr,
     subject |-> row.subject, date_str |-> row.date_str]

(***************************************************************************)
(* MailCache                                                               *)
(***************************************************************************)
\* the same SELECT with ORDER BY rowid ASC
load_list_asc(db, account, folder) ==
    LET sel == SelectWhere(db, account, folder)
    IN [i \in 1..Len(sel) |-> ListRow(sel[i])]

\* SELECT uid, flags, from_addr, subject, date_str ... ORDER BY rowid DESC
load_list(db, account, folder) ==
    LET sel == Reverse(SelectWhere(db, account, folder))
    IN [i \in 1..Len(sel) |-> ListRow(sel[i])]

\* SELECT raw keyed by account and uid alone: the first folder's row answers
load_raw_any_folder(db, account, folder, uid) ==
    IF \E i \in 1..Len(db) : db[i].account = account /\ db[i].uid = uid
    THEN db[CHOOSE i \in 1..Len(db) :
                /\ db[i].account = account /\ db[i].uid = uid
                /\ \A j \in 1..(i - 1) : ~(db[j].account = account /\ db[j].uid = uid)].raw
    ELSE None

\* SELECT raw ... WHERE account=? AND folder=? AND uid=?; row[0] if row else None
load_raw(db, account, folder, uid) ==
    IF HasKey(db, <<account, folder, uid>>)
    THEN RowOf(db, <<account, folder, uid>>).raw
    ELSE None

\* SELECT uid ... WHERE account=? alone: the uids of every folder
get_uids_account(db, account, folder) ==
    {db[i].uid : i \in {j \in 1..Len(db) : db[j].account = account}}

\* {row[0] for row in cur.fetchall()}
get_uids(db, account, folder) ==
    {db[i].uid : i \in {j \in 1..Len(db) :
                          db[j].account = account /\ db[j].folder = folder}}

\* INSERT OR REPLACE: the conflicting row is deleted and the new one inserted
insert_or_replace(db, row) ==
    [db |-> Append(SelectSeq(db, LAMBDA r : PrimaryKey(r) # PrimaryKey(row)), row),
     raised |-> FALSE]

\* plain INSERT: a primary-key conflict raises sqlite3.IntegrityError
insert_or_abort(db, row) ==
    IF HasKey(db, PrimaryKey(row))
    THEN [db |-> db, raised |-> TRUE]
    ELSE [db |-> Append(db, row), raised |-> FALSE]

\* One INSERT OR IGNORE: a parameter that cannot be bound raises; a row
\* whose primary key is taken is skipped without an error; otherwise the row
\* gets the next rowid (max(rowid)+1: the end).
insert_or_ignore(db, row) ==
    IF Unbindable(row) THEN [db |-> db, raised |-> TRUE]
    ELSE IF HasKey(db, PrimaryKey(row))
    THEN [db |-> db, raised |-> FALSE]
    ELSE [db |-> Append(db, row), raised |-> FALSE]

RECURSIVE executemany(_, _)
\* the statement run once per parameter row, in list order, until one raises
executemany(db, rows) ==
    IF rows = <<>> THEN [db |-> db, raised |-> FALSE]
    ELSE LET r == insert_or_ignore(db, Head(rows))
         IN IF r.raised THEN r ELSE executemany(r.db, Tail(rows))

\* store_batch: executemany over [(account, folder, *m) for m in messages],
\* commit; when executemany raises, neither commit nor rollback is called and
\* the rows inserted so far stay in the open transaction of self.conn
store_batch(db, account, folder, batch) ==
    executemany(db, [i \in 1..Len(batch) |-> TableRow(account, folder, batch[i])])

\* DELETE without the uid condition: the whole partition goes
delete_partition(db, account, folder, uid) ==
    SelectSeq(db, LAMBDA r : ~(r.account = account /\ r.folder = folder))

\* DELETE keyed by uid alone: the uid goes from every partition
delete_any_partition(db, account, folder, uid) ==
    SelectSeq(db, LAMBDA r : r.uid # uid)

\* DELETE FROM emails WHERE account=? AND folder=? AND uid=?; commit
delete(db, account, folder, uid) ==
    SelectSeq(db, LAMBDA r : PrimaryKey(r) # <<account, folder, uid>>)

(***************************************************************************)
(* SpecCache: the store under arbitrary calls                              *)
(***************************************************************************)
NoCall ==
    [op |-> "none", account |-> "a1", folder |-> "INBOX", uid |-> None, met |-> "none",
     after_delete |-> FALSE]

\* What a batch met in the table: "clash" when a key of the batch is stored
\* with other columns, "repeat" when every row of a non-empty batch is stored
\* as given, "none" otherwise.
Met(db, account, folder, batch) ==
    LET row(i) == TableRow(account, folder, batch[i])
    IN IF \E i \in 1..Len(batch), j \in 1..Len(db) :
              PrimaryKey(db[j]) = <<account, folder, batch[i].uid>> /\ db[j] # row(i)
       THEN "clash"
       ELSE IF batch # <<>> /\ \A i \in 1..Len(batch) : \E j \in 1..Len(db) : db[j] = row(i)
       THEN "repeat"
       ELSE "none"

\* the first element of batch that carries uid u
FirstWith(batch, u) ==
    batch[CHOOSE i \in 1..Len(batch) :
                 /\ batch[i].uid = u
                 /\ \A j \in 1..(i - 1) : batch[j].uid # u]

InitCache ==
    /\ emails = <<>>
    /\ last_call = NoCall
    /\ first_written = [k \in {} |-> None]
    /\ inserted = <<>>
    /\ protocol = "imap"
    /\ uidl = FALSE
    /\ remote = <<>>
    /\ messages = <<>>
    /\ tree = <<>>
    /\ current_folder = "INBOX"
    /\ folder_var = "INBOX"
    /\ selected_idx = -1
    /\ selected_uid = None
    /\ buttons = "normal"
    /\ started = FALSE
    /\ after_queue = <<>>
    /\ sync = <<>>
    /\ nsync = 0
    /\ del = <<>>
    /\ done = <<>>
    /\ msg_cache = <<>>
    /\ search_var = <<>>
    /\ crypto = <<>>
    /\ conn = <<>>
    /\ http = <<>>
    /\ detail = <<>>

\* The keys one store_batch inserts: one per element of batch whose key is
\* neither held nor carried by an earlier element, in list order.
Entries(account, folder, batch) ==
    LET new == SelectSeq([i \in 1..Len(batch) |-> i],
                         LAMBDA i : /\ \A k \in 1..Len(inserted) :
                                           inserted[k] # <<account, folder, batch[i].uid>>
                                    /\ \A j \in 1..(i - 1) : batch[j].uid # batch[i].uid)
    IN [k \in 1..Len(new) |-> <<account, folder, batch[new[k]].uid>>]

\* the call before this one was a delete that removed a row of (account, folder)
AfterDelete(account, folder) ==
    /\ last_call.op = "delete" /\ last_call.met = "removed"
    /\ last_call.account = account /\ last_call.folder = folder

StoreBatch(account, folder, batch) ==
    LET r == store_batch(emails, account, folder, batch)
        bound == Bound(batch)
        fresh == {<<account, folder, bound[i].uid>> : i \in 1..Len(bound)}
                     \ DOMAIN first_written
    IN /\ Len(r.db) <= MaxRows
       /\ emails' = r.db
       /\ last_call' = [op |-> IF r.raised THEN "store_batch raised" ELSE "store_batch",
                        account |-> account, folder |-> folder, uid |-> None,
                        met |-> Met(emails, account, folder, batch),
                        after_delete |-> AfterDelete(account, folder)]
       /\ first_written' =
              [k \in DOMAIN first_written \cup fresh |->
                  IF k \in fresh
                  THEN TableRow(account, folder, FirstWith(bound, k[3]))
                  ELSE first_written[k]]
       /\ inserted' = inserted \o Entries(account, folder, bound)
       /\ UNCHANGED gui_vars

Delete(account, folder, uid) ==
    /\ emails' = delete(emails, account, folder, uid)
    /\ last_call' = [op |-> "delete", account |-> account, folder |-> folder, uid |-> uid,
                     met |-> IF HasKey(emails, <<account, folder, uid>>)
                             THEN "removed" ELSE "absent",
                     after_delete |-> FALSE]
    /\ first_written' =
           [k \in DOMAIN first_written \ {<<account, folder, uid>>} |-> first_written[k]]
    /\ inserted' = SelectSeq(inserted, LAMBDA k : k # <<account, folder, uid>>)
    /\ UNCHANGED gui_vars

NextCache ==
    \/ \E account \in Accounts, folder \in Folders, batch \in Batches :
           StoreBatch(account, folder, batch)
    \/ \E account \in Accounts, folder \in Folders, uid \in Uids :
           Delete(account, folder, uid)

SpecCache == InitCache /\ [][NextCache]_vars

\* the store under calls whose rows may carry a Header object
NextHeader ==
    \/ \E account \in Accounts, folder \in Folders, batch \in HeaderBatches :
           StoreBatch(account, folder, batch)
    \/ \E account \in Accounts, folder \in Folders, uid \in Uids :
           Delete(account, folder, uid)

SpecHeader == InitCache /\ [][NextHeader]_vars

(***************************************************************************)
(* Claims about the store                                                  *)
(***************************************************************************)
\* C2: for every account, folder and batch, storing the batch a second time
\* does not raise and leaves get_uids with the cardinality it had after the
\* first store.
C2_StoreTwiceSameCardinality ==
    \A account \in Accounts, folder \in Folders, rows \in Batches :
        LET once == store_batch(emails, account, folder, rows)
            twice == store_batch(once.db, account, folder, rows)
        IN ~once.raised =>
               /\ ~twice.raised
               /\ Cardinality(get_uids(twice.db, account, folder))
                      = Cardinality(get_uids(once.db, account, folder))

\* a store_batch has just been called with rows that were all stored already
C2_Witness ==
    /\ last_call.op = "store_batch"
    /\ last_call.met = "repeat"
    /\ get_uids(emails, last_call.account, last_call.folder) # {}

\* C3: there is at most one row per key (account, folder, uid), and the row
\* held for a key is the one written by the first store_batch that contained
\* the key since it was last absent: no later store_batch overwrites a column.
C3_FirstStoreWins ==
    /\ \A i, j \in 1..Len(emails) :
           PrimaryKey(emails[i]) = PrimaryKey(emails[j]) => i = j
    /\ \A i \in 1..Len(emails) :
           /\ PrimaryKey(emails[i]) \in DOMAIN first_written
           /\ emails[i] = first_written[PrimaryKey(emails[i])]

\* a store_batch has just carried other columns for a key that was stored
C3_Witness ==
    /\ last_call.op = "store_batch"
    /\ last_call.met = "clash"

\* C9: a store_batch or delete on partition (A, F) leaves load_list, get_uids
\* and load_raw of every other partition unchanged.
C9_PartitionsIndependent ==
    [][last_call'.op # "none" =>
          \A account \in Accounts, folder \in Folders :
              <<account, folder>> # <<last_call'.account, last_call'.folder>> =>
                  /\ load_list(emails', account, folder) = load_list(emails, account, folder)
                  /\ get_uids(emails', account, folder) = get_uids(emails, account, folder)
                  /\ \A uid \in Uids :
                         load_raw(emails', account, folder, uid)
                             = load_raw(emails, account, folder, uid)]_vars

\* a delete has just removed a uid that another partition holds too
C9_Witness ==
    /\ last_call.op = "delete"
    /\ last_call.met = "removed"
    /\ \E account \in Accounts, folder \in Folders :
           /\ <<account, folder>> # <<last_call.account, last_call.folder>>
           /\ last_call.uid \in get_uids(emails, account, folder)

\* C10: delete(A, F, u) removes u from get_uids(A, F) and leaves every other
\* row of the partition as it was; for a uid that is not stored it changes
\* nothing.
C10_DeleteOnlyThatUid ==
    [][last_call'.op = "delete" =>
          LET account == last_call'.account
              folder == last_call'.folder
              uid == last_call'.uid
              others == get_uids(emails, account, folder) \ {uid}
          IN /\ get_uids(emails', account, folder) = others
             /\ \A u \in others :
                    RowOf(emails', <<account, folder, u>>)
                        = RowOf(emails, <<account, folder, u>>)
             /\ uid \notin get_uids(emails, account, folder) => emails' = emails]_vars

\* a delete has just removed a row of a partition that holds another uid
C10_Witness ==
    /\ last_call.op = "delete"
    /\ last_call.met = "removed"
    /\ get_uids(emails, last_call.account, last_call.folder) # {}

\* the keys of partition (account, folder) stored and not deleted since
StoredKeys(account, folder) ==
    {k \in DOMAIN first_written : k[1] = account /\ k[2] = folder}

\* C11: get_uids(A, F) is exactly the set of uids stored into (A, F) and
\* not deleted since (so it holds u right after a store_batch that carried
\* u), and it is the set of uids of the rows load_list(A, F) returns.
C11_UidsAreStoredNotDeleted ==
    \A account \in Accounts, folder \in Folders :
        /\ get_uids(emails, account, folder)
               = {k[3] : k \in StoredKeys(account, folder)}
        /\ get_uids(emails, account, folder)
               = {r.uid : r \in Range(load_list(emails, account, folder))}

\* a store_batch has just followed a delete on its partition, which now
\* holds a uid that another partition does not
C11_Witness ==
    /\ last_call.op = "store_batch"
    /\ last_call.after_delete
    /\ \E uid \in get_uids(emails, last_call.account, last_call.folder) :
           \E account \in Accounts, folder \in Folders :
               uid \notin get_uids(emails, account, folder)

\* the place of key in the order of the INSERTs (0 when it is not held)
InsertedAt(key) ==
    IF \E n \in 1..Len(inserted) : inserted[n] = key
    THEN CHOOSE n \in 1..Len(inserted) : inserted[n] = key
    ELSE 0

\* C12: load_list(A, F) returns the rows of the partition newest insertion
\* first, also when rows were deleted and others inserted afterwards; for a
\* partition without rows it returns the empty sequence.
C12_NewestInsertionFirst ==
    \A account \in Accounts, folder \in Folders :
        LET rows == load_list(emails, account, folder)
        IN /\ Len(rows) = Cardinality(StoredKeys(account, folder))
           /\ \A i \in 1..Len(rows) : InsertedAt(<<account, folder, rows[i].uid>>) > 0
           /\ \A i, j \in 1..Len(rows) :
                  i < j => InsertedAt(<<account, folder, rows[i].uid>>)
                               > InsertedAt(<<account, folder, rows[j].uid>>)
           /\ StoredKeys(account, folder) = {} => rows = <<>>

\* a store_batch that followed a delete on its partition has just inserted
\* a row: the partition lists two rows, the newest INSERT first, and another
\* folder of the account lists none
C12_Witness ==
    /\ last_call.op = "store_batch"
    /\ last_call.after_delete
    /\ LET rows == load_list(emails, last_call.account, last_call.folder)
       IN /\ Len(rows) = 2
          /\ inserted[Len(inserted)] = <<last_call.account, last_call.folder, rows[1].uid>>
    /\ \E folder \in Folders : load_list(emails, last_call.account, folder) = <<>>

\* C13: load_raw(A, F, u) is None when no row has key (A, F, u), and is the
\* raw bytes given to the store_batch that created the row when there is one.
C13_LoadRawOfKey ==
    \A key \in Keys :
        load_raw(emails, key[1], key[2], key[3])
            = IF key \in DOMAIN first_written THEN first_written[key].raw ELSE None

\* a store_batch has just offered other bytes for a stored key whose raw
\* bytes are kept, and the same uid is absent from another folder of the
\* account
C13_Witness ==
    /\ last_call.op = "store_batch"
    /\ last_call.met = "clash"
    /\ \E uid \in Uids, folder \in Folders :
           /\ load_raw(emails, last_call.account, last_call.folder, uid) = "raw1"
           /\ folder # last_call.folder
           /\ ~HasKey(emails, <<last_call.account, folder, uid>>)


\* C20: a store_batch call that raises leaves load_list and get_uids of
\* every partition as they were before the call: no row of its batch is
\* visible afterwards, and the rows stored before are kept.
C20_StoreBatchAllOrNothing ==
    [][last_call'.op = "store_batch raised" =>
          \A account \in Accounts, folder \in Folders :
              /\ load_list(emails', account, folder) = load_list(emails, account, folder)
              /\ get_uids(emails', account, folder) = get_uids(emails, account, folder)]_vars

(***************************************************************************)
(* The mail client: server, sync threads, delete thread, main loop         *)
(***************************************************************************)
MaxRemote == 3     \* messages ever delivered to INBOX
MaxThreads == 2    \* _fetch_thread threads alive at once
MaxQueue == 3      \* callbacks waiting in root.after
MaxSyncs == 2      \* _fetch_thread threads started in one run
MaxExpunged == 1   \* messages another client expunges

\* fetch_limit = 50 in _fetch_pop3 and _fetch_imap, scaled down so that a
\* mailbox of MaxRemote messages exceeds the window
fetch_limit == 2

\* cfg["email"]
email == "a1"

\* the folder selector's values that the model uses
ComboValues == {"INBOX", "Sent"}

\* the folders the server can select
ServerFolders == DOMAIN remote

\* str(i) of a sequence number, and bytes.decode() of an IMAP UID
Decimal == <<"1", "2", "3", "4", "5">>
str(i) == Decimal[i]

\* int(uid): the number, or -1 where Python raises ValueError
int(uid) ==
    IF \E i \in 1..Len(Decimal) : Decimal[i] = uid
    THEN CHOOSE i \in 1..Len(Decimal) : Decimal[i] = uid
    ELSE -1

\* the UIDL tag the POP3 server gives message n
UidlTag == <<"t1", "t2", "t3", "t4", "t5">>

\* The server keeps, per folder, one entry per message ever delivered, in
\* arrival order: "ok" a message, "bad" a message whose From header names an
\* unknown charset (decode raises LookupError), "gone" an expunged one.
\* Message n of a folder is entry n: an IMAP UID is never reused.
Live(box) == SelectSeq([i \in 1..Len(box) |-> i], LAMBDA n : box[n] # "gone")

RawOf(folder, n) ==
    IF folder = "INBOX" THEN <<"in1", "in2", "in3", "in4", "in5">>[n]
    ELSE <<"se1", "se2", "se3", "se4", "se5">>[n]

\* the tuple appended to new_messages for message n of folder, stored as uid
FetchedRow(folder, n, uid, flags) ==
    [uid |-> uid, flags |-> flags,
     from_addr |-> IF folder = "INBOX" THEN "a@x.com" ELSE "me@x.com",
     subject |-> RawOf(folder, n),
     date_str |-> "2026-01-01",
     raw |-> RawOf(folder, n)]

\* FLAGS the IMAP server returns: the first message of a folder has been read
ImapFlags(n) == IF n = 1 THEN "\\Seen" ELSE ""

\* s[-k:]
LastN(s, k) == SubSeq(s, IF Len(s) > k THEN Len(s) - k + 1 ELSE 1, Len(s))

\* s[:fetch_limit]
FirstWindow(s) == SubSeq(s, 1, IF Len(s) > fetch_limit THEN fetch_limit ELSE Len(s))

\* server_uids[-fetch_limit:]
Window(s) == LastN(s, fetch_limit)

\* self._msg_cache = {}
NoCache == [u \in {} |-> None]

\* self._msg_cache[uid] = (msg, raw)
Put(cache, uid, raw) ==
    [u \in DOMAIN cache \cup {uid} |-> IF u = uid THEN raw ELSE cache[u]]

RECURSIVE PutAll(_, _)
\* the assignments of a download loop, for the rows decoded, in their order
PutAll(cache, rows) ==
    IF rows = <<>> THEN cache
    ELSE PutAll(Put(cache, Head(rows).uid, Head(rows).raw), Tail(rows))

\* self._msg_cache.pop(uid, None)
Pop(cache, uid) == [u \in DOMAIN cache \ {uid} |-> cache[u]]

\* no selection in the last step
NoDetail == [uid |-> None, content |-> None, plain |-> None, own |-> FALSE]

\* A _fetch_thread: its position, its locals (folder, new_uids, new_messages)
\* and history: the uids it asked the server for, those it got no row for,
\* those it gave to store_batch, and the store and view when it was started.
IdleSync ==
    [pc |-> "idle", folder |-> "INBOX", new_uids |-> <<>>, new_messages |-> <<>>,
     requested |-> {}, failed |-> {}, stored |-> {},
     emails0 |-> <<>>, messages0 |-> <<>>, tree0 |-> <<>>]

\* The _delete_thread: its position, its argument uid, and history: the raw
\* bytes of the message its remote commands removed without error.
IdleDelete == [pc |-> "idle", uid |-> None, removed |-> None]

NoSync ==
    [signal |-> "none", folder |-> "INBOX", requested |-> {}, failed |-> {},
     stored |-> {}, raised_at |-> "", emails0 |-> <<>>, messages0 |-> <<>>, tree0 |-> <<>>,
     op |-> "none", session |-> "none"]

\* how a _delete_thread ended: no signal of a sync, and the state its remote
\* session was left in
Deleted(session) == [NoSync EXCEPT !.op = "delete", !.session = session]

\* the INBOX found at startup: MaxRemote messages, the newest one readable or not
InitBoxes == {[n \in 1..MaxRemote |-> IF n = MaxRemote THEN kind ELSE "ok"] :
                  kind \in {"ok", "bad"}}

\* What an earlier session left in mail_cache.db: nothing, or the first
\* message of INBOX, synced when it was the only one.
EarlierRows ==
    {<<>>,
     <<TableRow(email, "INBOX",
                FetchedRow("INBOX", 1, IF protocol = "imap" \/ ~uidl THEN str(1) ELSE UidlTag[1],
                           IF protocol = "imap" THEN ImapFlags(1) ELSE ""))>>}

\* b"": the bytes of a message of no lines
EmptyBytes == ""

\* The cache file of an earlier session that found message 1 of INBOX to be
\* a message of no lines: b"\r\n".join([]) under POP3, an empty literal under
\* IMAP; every header is "" and the raw column is b"".
LeftRows ==
    EarlierRows \cup
    {<<TableRow(email, "INBOX",
                [uid |-> IF protocol = "imap" \/ ~uidl THEN str(1) ELSE UidlTag[1],
                 flags |-> "", from_addr |-> "", subject |-> "", date_str |-> "",
                 raw |-> EmptyBytes])>>}

\* MailGUI.__init__ for a server whose INBOX is one of boxes, with a cache
\* file that is one of stores
InitWith(boxes, stores) ==
    /\ last_call = NoCall
    /\ first_written = [k \in {} |-> None]
    /\ inserted = <<>>
    /\ protocol \in {"imap", "pop3"}
    /\ uidl \in BOOLEAN
    /\ protocol = "imap" => uidl = FALSE
    /\ emails \in stores
    /\ remote \in {[f \in {"INBOX", "Sent"} |-> IF f = "Sent" THEN <<"ok">> ELSE box] :
                       box \in boxes}
    /\ messages = <<>>
    /\ tree = <<>>
    /\ current_folder = "INBOX"
    /\ folder_var = "INBOX"
    /\ selected_idx = -1
    /\ selected_uid = None
    /\ buttons = "normal"
    /\ started = FALSE
    /\ after_queue = <<>>
    /\ sync = [t \in 1..MaxThreads |-> IdleSync]
    /\ nsync = 0
    /\ del = IdleDelete
    /\ done = NoSync
    /\ msg_cache = NoCache
    /\ search_var = <<>>
    /\ crypto = <<>>
    /\ conn = <<>>
    /\ http = <<>>
    /\ detail = NoDetail

Init == InitWith(InitBoxes, {<<>>})

\* the same with the cache file of an earlier session
InitEarlier == InitWith(InitBoxes, EarlierRows)

\* a session over a cache file that may hold a message of no lines
InitResolve == InitWith(InitBoxes, LeftRows)

InitSync == InitWith({<<>>}, {<<>>})

\* ---- the server ----------------------------------------------------------
\* a message is delivered to INBOX
Arrive(kind) ==
    /\ Len(remote["INBOX"]) < MaxRemote
    /\ remote' = [remote EXCEPT !["INBOX"] = Append(@, kind)]
    /\ UNCHANGED <<cache_vars, protocol, uidl, crypto, conn, http, search_var, msg_cache,
                   messages, tree, current_folder, folder_var, selected_idx, selected_uid, buttons,
                   started, after_queue, sync, nsync, del>>
    /\ detail' = NoDetail
    /\ done' = NoSync

\* another client expunges the oldest message of INBOX
ExpungeElsewhere ==
    /\ Live(remote["INBOX"]) # <<>>
    /\ Len(remote["INBOX"]) - Len(Live(remote["INBOX"])) < MaxExpunged
    /\ remote' = [remote EXCEPT !["INBOX"][Head(Live(remote["INBOX"]))] = "gone"]
    /\ UNCHANGED <<cache_vars, protocol, uidl, crypto, conn, http, search_var, msg_cache,
                   messages, tree, current_folder, folder_var, selected_idx, selected_uid, buttons,
                   started, after_queue, sync, nsync, del>>
    /\ detail' = NoDetail
    /\ done' = NoSync

\* ---- MailGUI, main thread ------------------------------------------------
\* str.lower() of the characters the model uses
lower(text) ==
    [i \in 1..Len(text) |->
        IF text[i] = "A" THEN "a" ELSE IF text[i] = "B" THEN "b" ELSE text[i]]

\* Python's  x in y  for two strings
IsIn(x, y) == \E k \in 0..(Len(y) - Len(x)) : SubSeq(y, k + 1, k + Len(x)) = x

\* if search and search not in from_str.lower() and search not in subject.lower()
Skipped(row, search) ==
    /\ search # <<>>
    /\ ~IsIn(search, lower(row.from_addr))
    /\ ~IsIn(search, lower(row.subject))

\* the rows rendered when only the sender is searched
update_list_from_only(rows, text) ==
    SelectSeq(rows, LAMBDA r : text = <<>> \/ IsIn(lower(text), lower(r.from_addr)))

RECURSIVE update_list(_, _)
\* _update_list: the rows inserted into the tree, for self.messages = rows
\* and the search box holding text
update_list(rows, text) ==
    IF rows = <<>> THEN <<>>
    ELSE IF Skipped(Head(rows), lower(text)) THEN update_list(Tail(rows), text)
    ELSE <<Head(rows)>> \o update_list(Tail(rows), text)

\* run(): _load_cached_list, then root.after(500, self.fetch_mail)
run ==
    /\ ~started
    /\ started' = TRUE
    /\ LET rows == load_list(emails, email, current_folder)
       IN IF rows # <<>>
          THEN messages' = rows /\ tree' = update_list(rows, search_var)
          ELSE UNCHANGED <<messages, tree>>
    /\ after_queue' = Append(after_queue, "fetch_mail")
    /\ UNCHANGED <<cache_vars, protocol, uidl, crypto, conn, http, search_var, msg_cache,
                   remote, current_folder, folder_var, selected_idx, selected_uid, buttons, sync, nsync,
                   del>>
    /\ detail' = NoDetail
    /\ done' = NoSync

\* fetch_mail with the folder selector showing fv: the buttons are disabled,
\* current_folder is set and a _fetch_thread is started
fetch_mail(fv) ==
    /\ \E t \in 1..MaxThreads :
           /\ sync[t].pc = "idle"
           /\ \A t2 \in 1..(t - 1) : sync[t2].pc # "idle"
           /\ sync' = [sync EXCEPT ![t] =
                          [IdleSync EXCEPT !.pc = "start", !.emails0 = emails,
                                           !.messages0 = messages, !.tree0 = tree]]
    /\ nsync < MaxSyncs
    /\ nsync' = nsync + 1
    /\ buttons' = "disabled"
    /\ current_folder' = fv

\* the toolbar button
toolbar_fetch ==
    /\ started /\ buttons = "normal"
    /\ fetch_mail(folder_var)
    /\ UNCHANGED <<cache_vars, protocol, uidl, crypto, conn, http, search_var, msg_cache,
                   remote, messages, tree, folder_var, selected_idx, selected_uid, started, after_queue,
                   del>>
    /\ detail' = NoDetail
    /\ done' = NoSync

\* the menu command
menu_fetch ==
    /\ started
    /\ fetch_mail(folder_var)
    /\ UNCHANGED <<cache_vars, protocol, uidl, crypto, conn, http, search_var, msg_cache,
                   remote, messages, tree, folder_var, selected_idx, selected_uid, started, after_queue,
                   del>>
    /\ detail' = NoDetail
    /\ done' = NoSync

\* <<ComboboxSelected>>
folder_selected(f) ==
    /\ started
    /\ folder_var' = f
    /\ fetch_mail(f)
    /\ UNCHANGED <<cache_vars, protocol, uidl, crypto, conn, http, search_var, msg_cache,
                   remote, messages, tree, selected_idx, selected_uid, started, after_queue, del>>
    /\ detail' = NoDetail
    /\ done' = NoSync

\* the index in rows of display row display_idx when nothing is filtered
map_unfiltered(rows, text, display_idx) ==
    IF display_idx < Len(rows) THEN display_idx ELSE -1

RECURSIVE MapLoop(_, _, _, _, _)
\* the loop of _map_display_to_actual from index i on, count rows passed
MapLoop(rows, search, display_idx, i, count) ==
    IF i >= Len(rows) THEN -1
    ELSE IF Skipped(rows[i + 1], search)
         THEN MapLoop(rows, search, display_idx, i + 1, count)
    ELSE IF count = display_idx THEN i
    ELSE MapLoop(rows, search, display_idx, i + 1, count + 1)

\* _map_display_to_actual, for self.messages = rows and the search box
\* holding text
map_display_to_actual(rows, text, display_idx) ==
    MapLoop(rows, lower(text), display_idx, 0, 0)

\* if raw: the truth value of what load_raw returned, None or bytes
truth(raw) == raw # None /\ raw # EmptyBytes

\* _get_parsed_msg for uid: the entry of cache when there is one, else
\* load_raw of (email, current_folder, uid), kept in the cache when it is
\* true; the bytes of the parsed message (None for none) and the cache
get_parsed_msg(cache, uid) ==
    LET raw == load_raw(emails, email, current_folder, uid)
    IN IF uid \in DOMAIN cache THEN [raw |-> cache[uid], cache |-> cache]
       ELSE IF truth(raw) THEN [raw |-> raw, cache |-> Put(cache, uid, raw)]
       ELSE [raw |-> None, cache |-> cache]

\* <<TreeviewSelect>> on row display_idx of the tree, and the _load_message
\* it starts: the pane shows what _get_parsed_msg resolves for the row.
\* History: detail.plain is what it resolves with an empty _msg_cache, and
\* detail.own tells whether the row is a row of the store's partition
\* (email, current_folder).
on_select(display_idx) ==
    /\ started
    /\ display_idx \in 0..(Len(tree) - 1)
    /\ LET actual_idx == map_display_to_actual(messages, search_var, display_idx)
           uid == messages[actual_idx + 1].uid
           got == get_parsed_msg(msg_cache, uid)
       IN /\ actual_idx >= 0
          /\ selected_idx' = actual_idx
          /\ selected_uid' = uid
          /\ msg_cache' = got.cache
          /\ detail' = [uid |-> uid, content |-> got.raw,
                        plain |-> get_parsed_msg(NoCache, uid).raw,
                        own |-> messages[actual_idx + 1]
                                    \in Range(load_list(emails, email, current_folder))]
    /\ UNCHANGED <<cache_vars, protocol, uidl, crypto, conn, http, search_var, remote,
                   messages, tree, current_folder, folder_var, buttons, started,
                   after_queue, sync, nsync, del>>
    /\ done' = NoSync

\* the delete button, confirmed: a _delete_thread is started for the uid of
\* self.messages[self._selected_idx] (an index past the list raises IndexError)
delete_mail ==
    /\ started /\ buttons = "normal"
    /\ selected_idx >= 0
    /\ selected_idx < Len(messages)
    /\ del.pc = "idle"
    /\ del' = [IdleDelete EXCEPT !.pc = "start", !.uid = messages[selected_idx + 1].uid]
    /\ UNCHANGED <<cache_vars, protocol, uidl, crypto, conn, http, search_var, msg_cache,
                   remote, messages, tree, current_folder, folder_var, selected_idx, selected_uid,
                   buttons, started, after_queue, sync, nsync>>
    /\ detail' = NoDetail
    /\ done' = NoSync

\* the main loop runs the oldest callback
mainloop_update_list ==
    /\ after_queue # <<>> /\ Head(after_queue) = "_update_list"
    /\ after_queue' = Tail(after_queue)
    /\ tree' = update_list(messages, search_var)
    /\ UNCHANGED <<cache_vars, protocol, uidl, crypto, conn, http, search_var, msg_cache,
                   remote, messages, current_folder, folder_var, selected_idx, selected_uid, buttons,
                   started, sync, nsync, del>>
    /\ detail' = NoDetail
    /\ done' = NoSync

mainloop_fetch_complete ==
    /\ after_queue # <<>> /\ Head(after_queue) = "_fetch_complete"
    /\ after_queue' = Tail(after_queue)
    /\ buttons' = "normal"
    /\ UNCHANGED <<cache_vars, protocol, uidl, crypto, conn, http, search_var, msg_cache,
                   remote, messages, tree, current_folder, folder_var, selected_idx, selected_uid,
                   started, sync, nsync, del>>
    /\ detail' = NoDetail
    /\ done' = NoSync

\* The main loop runs lambda: self._fetch_error(str(e)). The lambda reads e of
\* _fetch_thread, which Python unbinds when the thread leaves its except
\* block: called before that it runs _fetch_error, called after it raises
\* NameError, which Tk reports, and _fetch_error is not run.
mainloop_fetch_error ==
    /\ after_queue # <<>> /\ Head(after_queue) = "_fetch_error"
    /\ after_queue' = Tail(after_queue)
    /\ \E bound \in BOOLEAN : buttons' = IF bound THEN "normal" ELSE buttons
    /\ UNCHANGED <<cache_vars, protocol, uidl, crypto, conn, http, search_var, msg_cache,
                   remote, messages, tree, current_folder, folder_var, selected_idx, selected_uid,
                   started, sync, nsync, del>>
    /\ detail' = NoDetail
    /\ done' = NoSync

mainloop_fetch_mail ==
    /\ started
    /\ after_queue # <<>> /\ Head(after_queue) = "fetch_mail"
    /\ after_queue' = Tail(after_queue)
    /\ fetch_mail(folder_var)
    /\ UNCHANGED <<cache_vars, protocol, uidl, crypto, conn, http, search_var, msg_cache,
                   remote, messages, tree, folder_var, selected_idx, selected_uid, started, del>>
    /\ detail' = NoDetail
    /\ done' = NoSync

\* ---- _fetch_thread --------------------------------------------------------
\* How thread t ended: the signal handed to the main loop, and its history.
\* The remote session of a sync that raised at the given place: none when the
\* constructor of the connection raised, "closing" when logout or quit did,
\* open when any statement between them did; logout and quit are called
\* nowhere but at the end of _fetch_imap and _fetch_pop3.
Ended(t, signal, at, failed) ==
    [signal |-> signal, folder |-> sync[t].folder, requested |-> sync[t].requested,
     failed |-> failed, stored |-> sync[t].stored, raised_at |-> at,
     emails0 |-> sync[t].emails0, messages0 |-> sync[t].messages0,
     tree0 |-> sync[t].tree0,
     op |-> "sync",
     session |-> IF signal = "complete" THEN "closed"
                 ELSE IF at = "connect" THEN "none"
                 ELSE IF at \in {"logout", "quit"} THEN "closing"
                 ELSE "open"]

\* except Exception as e: self.root.after(0, lambda: self._fetch_error(str(e)))
fetch_thread_except(t, at, failed) ==
    /\ Len(after_queue) < MaxQueue
    /\ after_queue' = Append(after_queue, "_fetch_error")
    /\ done' = Ended(t, "error", at, failed)
    /\ sync' = [sync EXCEPT ![t] = IdleSync]

\* the rows are reloaded from the cache into self.messages, _update_list and
\* then _fetch_complete are handed to the main loop
fetch_thread_reload(t, db, folder) ==
    /\ Len(after_queue) + 2 <= MaxQueue
    /\ messages' = load_list(db, email, folder)
    /\ after_queue' = after_queue \o <<"_update_list", "_fetch_complete">>
    /\ done' = Ended(t, "complete", "", sync[t].failed)
    /\ sync' = [sync EXCEPT ![t] = IdleSync]

\* a remote call of the sync raises: connecting (at "connect"), logging in
\* or listing (at "start"), the IMAP FETCH command (at "fetch"), logout or quit
fetch_remote_raises(t) ==
    /\ sync[t].pc \in {"start", "fetch", "logout", "quit"}
    /\ \E at \in {"connect", sync[t].pc} :
          /\ at = "connect" => sync[t].pc = "start"
          /\ fetch_thread_except(t, at, sync[t].failed)
    /\ UNCHANGED <<nsync, cache_vars, protocol, uidl, crypto, conn, http, search_var,
                   msg_cache, remote, messages, tree, current_folder, folder_var,
                   selected_idx, selected_uid, buttons, started, del>>
    /\ detail' = NoDetail

\* _fetch_imap up to new_uids: login, select (INBOX when the folder cannot be
\* selected), UID SEARCH ALL, the window, get_uids and the difference
fetch_imap_search(t) ==
    /\ protocol = "imap"
    /\ sync[t].pc = "start"
    /\ LET folder == IF current_folder \in ServerFolders THEN current_folder ELSE "INBOX"
           server_uids == Window(Live(remote[folder]))
           cached_uids == get_uids(emails, email, folder)
           new_uids == SelectSeq(server_uids, LAMBDA u : str(u) \notin cached_uids)
       IN sync' = [sync EXCEPT ![t] =
                      [@ EXCEPT !.pc = IF new_uids # <<>> THEN "fetch" ELSE "logout",
                                !.folder = folder,
                                !.new_uids = new_uids,
                                !.requested = {str(u) : u \in Range(new_uids)}]]
    /\ UNCHANGED <<nsync, cache_vars, protocol, uidl, crypto, conn, http, search_var,
                   msg_cache, remote, messages, tree, current_folder, folder_var,
                   selected_idx, selected_uid, buttons, started, after_queue, del>>
    /\ detail' = NoDetail
    /\ done' = NoSync

\* _fetch_imap from UID FETCH to store_batch: the server answers for the
\* messages it still has; decoding a header of an unknown charset raises
fetch_imap_fetch(t) ==
    /\ protocol = "imap"
    /\ sync[t].pc = "fetch"
    /\ LET folder == sync[t].folder
           box == remote[folder]
           got == SelectSeq(sync[t].new_uids, LAMBDA n : box[n] # "gone")
           new_messages == [i \in 1..Len(got) |->
                               FetchedRow(folder, got[i], str(got[i]), ImapFlags(got[i]))]
           failed == sync[t].requested \ {str(n) : n \in {m \in Range(got) : box[m] = "ok"}}
           decoded == SelectSeq(new_messages,
                                LAMBDA m : \A i \in 1..Len(got) :
                                    box[got[i]] = "bad" => int(m.uid) < got[i])
       IN IF \E n \in Range(got) : box[n] = "bad"
          THEN /\ fetch_thread_except(t, "decode", failed)
               /\ msg_cache' = PutAll(msg_cache, decoded)
               /\ UNCHANGED <<emails, messages>>
          ELSE /\ msg_cache' = PutAll(msg_cache, new_messages)
               /\ emails' = IF new_messages # <<>>
                            THEN store_batch(emails, email, folder, new_messages).db
                            ELSE emails
               /\ sync' = [sync EXCEPT ![t] =
                              [@ EXCEPT !.pc = "logout",
                                        !.failed = failed,
                                        !.stored = {str(n) : n \in Range(got)}]]
               /\ UNCHANGED <<after_queue, messages>>
               /\ done' = NoSync
    /\ UNCHANGED <<nsync, last_call, first_written, inserted, protocol, uidl, crypto, conn,
                   http, search_var, remote, tree, current_folder, folder_var,
                   selected_idx, selected_uid, buttons, started, del>>
    /\ detail' = NoDetail

\* _fetch_imap from logout on
fetch_imap_logout(t) ==
    /\ protocol = "imap"
    /\ sync[t].pc = "logout"
    /\ fetch_thread_reload(t, emails, sync[t].folder)
    /\ UNCHANGED <<nsync, cache_vars, protocol, uidl, crypto, conn, http, search_var,
                   msg_cache, remote, tree, current_folder, folder_var, selected_idx, selected_uid,
                   buttons, started, del>>
    /\ detail' = NoDetail

\* start = max(1, count - fetch_limit + 1)
PopStart(count) ==
    IF count - fetch_limit + 1 > 1 THEN count - fetch_limit + 1 ELSE 1

\* range(count, start - 1, -1)
CountDown(count, start) == [k \in 1..(count - start + 1) |-> count - k + 1]

\* the uid of every message is its sequence number
sequence_number_only(live, i) == str(i)

\* uidl_map.get(str(i), str(i)), where live[i] is the message the server has
\* at sequence number i: its UIDL tag when M.uidl() gave the listing, str(i)
\* when M.uidl() raised and uidl_map is {}
uidl_map_get(live, i) == IF uidl THEN UidlTag[live[i]] ELSE str(i)

\* _fetch_pop3 up to the end of the download loop: user, pass_, UIDL when the
\* server has it, stat, get_uids, then retr for each sequence number of the
\* window whose uid is not cached.  retr raises for the numbers in bad; a
\* message that raises, in retr or in decoding, is skipped.
fetch_pop3_retr(t, bad) ==
    /\ protocol = "pop3"
    /\ sync[t].pc = "start"
    /\ LET folder == "INBOX"
           live == Live(remote[folder])
           count == Len(live)
           uid_of(i) == uidl_map_get(live, i)
           cached_uids == get_uids(emails, email, folder)
           wanted == SelectSeq(CountDown(count, PopStart(count)),
                               LAMBDA i : uid_of(i) \notin cached_uids)
           ok == SelectSeq(wanted, LAMBDA i : i \notin bad /\ remote[folder][live[i]] = "ok")
       IN /\ bad \subseteq Range(wanted)
          /\ sync' = [sync EXCEPT ![t] =
                         [@ EXCEPT !.pc = "quit",
                                   !.folder = folder,
                                   !.new_messages =
                                       [k \in 1..Len(ok) |->
                                           FetchedRow(folder, live[ok[k]], uid_of(ok[k]), "")],
                                   !.requested = {uid_of(i) : i \in Range(wanted)},
                                   !.failed = {uid_of(i) : i \in Range(wanted) \ Range(ok)}]]
          /\ msg_cache' = PutAll(msg_cache,
                                 [k \in 1..Len(ok) |->
                                     FetchedRow(folder, live[ok[k]], uid_of(ok[k]), "")])
    /\ UNCHANGED <<nsync, cache_vars, protocol, uidl, crypto, conn, http, search_var,
                   remote, messages, tree, current_folder, folder_var, selected_idx, selected_uid,
                   buttons, started, after_queue, del>>
    /\ detail' = NoDetail
    /\ done' = NoSync

\* _fetch_pop3 from quit on: store_batch of the downloaded rows, the reload
fetch_pop3_quit(t) ==
    /\ protocol = "pop3"
    /\ sync[t].pc = "quit"
    /\ LET new_messages == sync[t].new_messages
           db == IF new_messages # <<>>
                 THEN store_batch(emails, email, sync[t].folder, new_messages).db
                 ELSE emails
       IN /\ emails' = db
          /\ Len(after_queue) + 2 <= MaxQueue
          /\ messages' = load_list(db, email, sync[t].folder)
          /\ after_queue' = after_queue \o <<"_update_list", "_fetch_complete">>
          /\ done' = [Ended(t, "complete", "", sync[t].failed) EXCEPT
                         !.stored = {new_messages[i].uid : i \in 1..Len(new_messages)}]
          /\ sync' = [sync EXCEPT ![t] = IdleSync]
    /\ UNCHANGED <<nsync, last_call, first_written, inserted, protocol, uidl, crypto, conn,
                   http, search_var, msg_cache, remote, tree, current_folder, folder_var,
                   selected_idx, selected_uid, buttons, started, del>>
    /\ detail' = NoDetail

\* ---- _delete_thread -------------------------------------------------------
\* The remote commands of _delete_thread under IMAP: login, select of
\* self.current_folder, UID STORE +FLAGS (\Deleted), expunge, logout.
\*   "raise"       a command after the connection raises before the message
\*                 is expunged
\*   "no"          STORE is answered NO: nothing is flagged, nothing raises
\*   "ok"          the message with that UID is expunged
\*   "raise_after" the message is expunged and logout raises
delete_imap(outcome) ==
    /\ protocol = "imap"
    /\ del.pc = "start"
    /\ LET folder == current_folder
           n == int(del.uid)
           there == folder \in ServerFolders /\ n >= 1 /\ n <= Len(remote[folder])
       IN /\ folder \notin ServerFolders => outcome = "raise"
          /\ remote' = IF outcome \in {"ok", "raise_after"} /\ there
                       THEN [remote EXCEPT ![folder][n] = "gone"]
                       ELSE remote
          /\ del' = IF outcome \in {"raise", "raise_after"} THEN IdleDelete
                    ELSE [del EXCEPT !.pc = "cache",
                                     !.removed = IF outcome = "ok" /\ there
                                                 THEN RawOf(folder, n) ELSE None]
    /\ UNCHANGED <<cache_vars, protocol, uidl, crypto, conn, http, search_var, msg_cache,
                   messages, tree, current_folder, folder_var, selected_idx, selected_uid, buttons,
                   started, after_queue, sync, nsync>>
    /\ detail' = NoDetail
    /\ done' = IF outcome = "raise" THEN Deleted("open")
               ELSE IF outcome = "raise_after" THEN Deleted("closing")
               ELSE NoSync

\* The remote commands under POP3: user, pass_, dele(int(uid)), quit.  int
\* raises for a uid that is no number, dele for a number that is no message,
\* both with the session open;
\* the server removes the message when quit succeeds.
delete_pop3(outcome) ==
    /\ protocol = "pop3"
    /\ del.pc = "start"
    /\ outcome \in {"ok", "raise"}
    /\ LET live == Live(remote["INBOX"])
           i == int(del.uid)
           there == i >= 1 /\ i <= Len(live)
       IN /\ ~there => outcome = "raise"
          /\ remote' = IF outcome = "ok"
                       THEN [remote EXCEPT !["INBOX"][live[i]] = "gone"]
                       ELSE remote
          /\ del' = IF outcome = "raise" THEN IdleDelete
                    ELSE [del EXCEPT !.pc = "cache", !.removed = RawOf("INBOX", live[i])]
    /\ UNCHANGED <<cache_vars, protocol, uidl, crypto, conn, http, search_var, msg_cache,
                   messages, tree, current_folder, folder_var, selected_idx, selected_uid, buttons,
                   started, after_queue, sync, nsync>>
    /\ detail' = NoDetail
    /\ done' = IF outcome = "raise" THEN Deleted("open") ELSE NoSync

\* mail_cache.delete(cfg["email"], self.current_folder, uid), then
\* root.after(0, self.fetch_mail)
delete_cache ==
    /\ del.pc = "cache"
    /\ Len(after_queue) < MaxQueue
    /\ emails' = delete(emails, email, current_folder, del.uid)
    /\ after_queue' = Append(after_queue, "fetch_mail")
    /\ del' = IdleDelete
    /\ msg_cache' = Pop(msg_cache, del.uid)
    /\ UNCHANGED <<last_call, first_written, inserted, protocol, uidl, crypto, conn, http,
                   search_var, remote, messages, tree, current_folder, folder_var,
                   selected_idx, selected_uid, buttons, started, sync, nsync>>
    /\ detail' = NoDetail
    /\ done' = Deleted("closed")

Next ==
    \/ run
    \/ toolbar_fetch
    \/ menu_fetch
    \/ \E f \in ComboValues : folder_selected(f)
    \/ \E i \in 0..(MaxRemote - 1) : on_select(i)
    \/ delete_mail
    \/ mainloop_update_list
    \/ mainloop_fetch_complete
    \/ mainloop_fetch_error
    \/ mainloop_fetch_mail
    \/ \E t \in 1..MaxThreads :
           \/ fetch_remote_raises(t)
           \/ fetch_imap_search(t)
           \/ fetch_imap_fetch(t)
           \/ fetch_imap_logout(t)
           \/ \E bad \in SUBSET (1..MaxRemote) : fetch_pop3_retr(t, bad)
           \/ fetch_pop3_quit(t)
    \/ \E outcome \in {"ok", "no", "raise", "raise_after"} : delete_imap(outcome)
    \/ \E outcome \in {"ok", "raise"} : delete_pop3(outcome)
    \/ delete_cache

Spec == Init /\ [][Next]_vars

\* The syncs of a session in which the user only presses the toolbar button,
\* while mail arrives at the server and is expunged there.
NextSync ==
    \/ Arrive("ok")
    \/ ExpungeElsewhere
    \/ run
    \/ toolbar_fetch
    \/ mainloop_update_list
    \/ mainloop_fetch_complete
    \/ mainloop_fetch_error
    \/ mainloop_fetch_mail
    \/ \E t \in 1..MaxThreads :
           \/ fetch_remote_raises(t)
           \/ fetch_imap_search(t)
           \/ fetch_imap_fetch(t)
           \/ fetch_imap_logout(t)
           \/ \E bad \in SUBSET (1..MaxRemote) : fetch_pop3_retr(t, bad)
           \/ fetch_pop3_quit(t)

SpecSync == InitSync /\ [][NextSync]_vars

\* A session over the cache file of an earlier one, in which the user
\* changes folders and selects rows.
NextFolders ==
    \/ run
    \/ \E f \in ComboValues : folder_selected(f)
    \/ \E i \in 0..(MaxRemote - 1) : on_select(i)
    \/ mainloop_update_list
    \/ mainloop_fetch_complete
    \/ mainloop_fetch_error
    \/ mainloop_fetch_mail
    \/ \E t \in 1..MaxThreads :
           \/ fetch_remote_raises(t)
           \/ fetch_imap_search(t)
           \/ fetch_imap_fetch(t)
           \/ fetch_imap_logout(t)
           \/ \E bad \in SUBSET (1..MaxRemote) : fetch_pop3_retr(t, bad)
           \/ fetch_pop3_quit(t)

SpecFolders == InitEarlier /\ [][NextFolders]_vars

SpecResolve == InitResolve /\ [][NextFolders]_vars

(***************************************************************************)
(* SpecFilter: the search box over a loaded list                           *)
(***************************************************************************)
MaxList == 3       \* rows of self.messages

\* rows as load_list returns them, sender and subject spelled in characters
FilterRows ==
    {[uid |-> "1", flags |-> "", from_addr |-> <<"A", "b">>, subject |-> <<"c">>,
      date_str |-> "2026-01-01"],
     [uid |-> "2", flags |-> "", from_addr |-> <<"b">>, subject |-> <<"A">>,
      date_str |-> "2026-01-01"],
     [uid |-> "3", flags |-> "", from_addr |-> <<"c">>, subject |-> <<"c", "a">>,
      date_str |-> "2026-01-01"],
     [uid |-> "4", flags |-> "", from_addr |-> <<>>, subject |-> <<>>,
      date_str |-> "2026-01-01"]}

\* the lists of up to MaxList rows, no uid twice
FilterLists ==
    {l \in UNION {[1..n -> FilterRows] : n \in 0..MaxList} :
        \A i, j \in 1..Len(l) : l[i] = l[j] => i = j}

\* what the user types into the search box
Texts == {<<>>, <<"a">>, <<"A", "B">>, <<"c", "a">>, <<"z">>}

\* the window with a list loaded and rendered, the search box empty
InitFilter ==
    /\ emails = <<>>
    /\ last_call = NoCall
    /\ first_written = [k \in {} |-> None]
    /\ inserted = <<>>
    /\ protocol = "imap"
    /\ uidl = FALSE
    /\ remote = [f \in {"INBOX", "Sent"} |-> <<>>]
    /\ messages \in FilterLists
    /\ search_var = <<>>
    /\ tree = update_list(messages, search_var)
    /\ current_folder = "INBOX"
    /\ folder_var = "INBOX"
    /\ selected_idx = -1
    /\ selected_uid = None
    /\ buttons = "normal"
    /\ started = TRUE
    /\ after_queue = <<>>
    /\ sync = [t \in 1..MaxThreads |-> IdleSync]
    /\ nsync = 0
    /\ del = IdleDelete
    /\ done = NoSync
    /\ msg_cache = NoCache
    /\ crypto = <<>>
    /\ conn = <<>>
    /\ http = <<>>
    /\ detail = NoDetail

\* the search box is edited to text: the trace on search_var calls
\* _on_search, which renders when self.messages is not empty
on_search(text) ==
    /\ started
    /\ text # search_var
    /\ search_var' = text
    /\ tree' = IF messages # <<>> THEN update_list(messages, text) ELSE tree
    /\ UNCHANGED <<cache_vars, protocol, uidl, crypto, conn, http, remote, messages,
                   current_folder, folder_var, selected_idx, selected_uid, buttons, started, after_queue,
                   sync, nsync, del, msg_cache>>
    /\ detail' = NoDetail
    /\ done' = NoSync

NextFilter ==
    \/ \E text \in Texts : on_search(text)
    \/ \E i \in 0..(MaxList - 1) : on_select(i)

SpecFilter == InitFilter /\ [][NextFilter]_vars

\* ---- the sync -------------------------------------------------------------
\* the identifier the program knows the i-th live message of folder by
RemoteId(folder, i) ==
    LET live == Live(remote[folder])
    IN IF protocol = "imap" THEN str(live[i])
       ELSE IF uidl THEN UidlTag[live[i]] ELSE str(i)

\* the identifiers of the last fetch_limit messages of folder, less the cached
Delta(folder) ==
    LET n == Len(Live(remote[folder]))
    IN {RemoteId(folder, i) : i \in {j \in 1..n : j > n - fetch_limit}}
           \ get_uids(emails, email, folder)

\* thread t lists the mailbox in this step
Lists(t) == sync[t].pc = "start" /\ sync'[t].pc \in {"fetch", "logout", "quit"}

\* C1: in one sync, POP3 or IMAP, the identifiers asked of the server are
\* exactly the last fetch_limit identifiers of the mailbox, by arrival order,
\* minus get_uids(account, folder): nothing cached is fetched again and every
\* windowed identifier that is not cached is requested.
C1_FetchesWindowMinusCached ==
    [][\A t \in 1..MaxThreads :
           Lists(t) => sync'[t].requested = Delta(sync'[t].folder)]_vars

\* a sync has asked for part of the window of a mailbox larger than the
\* window: one windowed identifier was cached, another was not
C1_Witness ==
    \E t \in 1..MaxThreads :
        /\ sync[t].pc \in {"fetch", "quit"}
        /\ Len(Live(remote[sync[t].folder])) > fetch_limit
        /\ sync[t].requested # {}
        /\ sync[t].requested = Delta(sync[t].folder)
        /\ \E i \in 1..Len(Live(remote[sync[t].folder])) :
               /\ i > Len(Live(remote[sync[t].folder])) - fetch_limit
               /\ RemoteId(sync[t].folder, i) \in get_uids(emails, email, sync[t].folder)

\* C4: when, within one sync, fetching one message of the delta fails and
\* fetching another succeeds, the fetched one is persisted, the failed one is
\* not, the sync ends with the completion signal and the persisted message
\* is in the list shown afterwards; under POP3 and under IMAP.
C4_PartialFailureCompletes ==
    LET \* the identifiers a finished sync fetched successfully
        Fetched(d) == d.requested \ d.failed
        Shown(u) == \E i \in 1..Len(messages) : messages[i].uid = u
    IN (/\ done.signal # "none"
        /\ done.raised_at \in {"", "decode"}
        /\ done.failed # {}
        /\ Fetched(done) # {})
       => /\ done.signal = "complete"
          /\ Fetched(done) \subseteq get_uids(emails, email, done.folder)
          /\ done.failed \cap get_uids(emails, email, done.folder) = {}
          /\ \A u \in Fetched(done) : Shown(u)

\* C5: a sync that ends with the failure signal leaves the cache with
\* exactly the rows it had when the sync started, whichever remote step
\* raised.
C5_FailedSyncLeavesCache ==
    done.signal = "error" => emails = done.emails0

\* C6: never are two _fetch_thread in flight at once for the same (account,
\* folder), whatever asks for the second sync; the folder of a thread is
\* the one whose partition it syncs.
C6_NoOverlappingSyncs ==
    LET SyncFolder(t) ==
            IF sync[t].pc # "start" THEN sync[t].folder
            ELSE IF protocol = "pop3" THEN "INBOX"
            ELSE IF current_folder \in ServerFolders THEN current_folder ELSE "INBOX"
    IN \A t1, t2 \in 1..MaxThreads :
           (t1 # t2 /\ sync[t1].pc # "idle" /\ sync[t2].pc # "idle")
           => SyncFolder(t1) # SyncFolder(t2)

\* C7: a row leaves the cache only in mail_cache.delete of _delete_thread,
\* and only after the remote commands have removed that message without
\* error; no sync removes a row.
C7_RowLeavesAfterRemoteDelete ==
    [][\A i \in 1..Len(emails) :
           ~HasKey(emails', PrimaryKey(emails[i]))
           => del.pc = "cache" /\ del.removed = emails[i].raw]_vars

\* C8: when a sync fails, self.messages and the rendered rows are exactly
\* what they were before the sync was requested.
C8_FailedSyncLeavesView ==
    done.signal = "error" => messages = done.messages0 /\ tree = done.tree0

\* C14: _msg_cache is transparent: what a selection resolves for a displayed
\* row with the in-memory cache is what it resolves with the cache always
\* empty, load_raw of the row's account and folder.  Stated for the rows
\* whose folder is the current one, where load_raw is asked for that folder.
C14_MsgCacheTransparent ==
    (detail.uid # None /\ detail.own) => detail.content = detail.plain

\* text is empty or, case ignored, a substring of the row's sender or subject
Passes(row, text) ==
    \/ text = <<>>
    \/ \E field \in {row.from_addr, row.subject} :
           \E k \in 0..(Len(field) - Len(text)) :
               \A j \in 1..Len(text) : lower(field)[k + j] = lower(text)[j]

\* the 0-based indexes of the rows of self.messages that pass the search text
Passing(text) == {i \in 0..(Len(messages) - 1) : Passes(messages[i + 1], text)}

\* the index of the n-th passing row (0-based), -1 when fewer than n+1 pass
NthPassing(text, n) ==
    IF Cardinality(Passing(text)) <= n THEN -1
    ELSE CHOOSE i \in Passing(text) : Cardinality({j \in Passing(text) : j < i}) = n

\* C15: for every list, search text and display index n,
\* _map_display_to_actual(n) is the index in the full list of the n-th row
\* that passes the filter, and -1 when fewer than n+1 rows pass.
C15_MapsToNthPassingRow ==
    \A n \in 0..MaxList :
        map_display_to_actual(messages, search_var, n) = NthPassing(search_var, n)

\* a selection has just picked a row that stands later in the full list than
\* in the filtered one
C15_Witness ==
    /\ detail.uid # None
    /\ search_var # <<>>
    /\ selected_idx >= 0
    /\ Cardinality({j \in Passing(search_var) : j < selected_idx}) < selected_idx
    /\ map_display_to_actual(messages, search_var, Len(messages) - 1) = -1

\* C16: _update_list shows a row iff the search text is empty or, case
\* ignored, a substring of its from_addr or subject; it keeps the order of
\* the rows and changes neither self.messages nor the store.
C16_RenderShowsPassingRows ==
    [][search_var' # search_var =>
          /\ messages' = messages
          /\ emails' = emails
          /\ messages # <<>> =>
                 /\ Len(tree') = Cardinality(Passing(search_var'))
                 /\ \A k \in 1..Len(tree') :
                        tree'[k] = messages[NthPassing(search_var', k - 1) + 1]]_vars

\* a text with a capital letter shows some rows of the list and hides others
C16_Witness ==
    /\ lower(search_var) # search_var
    /\ tree # <<>>
    /\ Len(tree) < Len(messages)
    /\ Len(tree) = Cardinality(Passing(search_var))

\* C19: when a sync or a delete ends, whichever way, the remote session it
\* opened has been closed by logout or quit.
C19_SessionClosedOnEveryExit ==
    done.op # "none" => done.session # "open"

\* C21: no step of a background thread (a step taken by a running
\* _fetch_thread or _delete_thread) assigns self.messages or
\* self._msg_cache; the threads only queue callbacks for the main loop.
C21_ForegroundStateWrittenOnForeground ==
    [][(\/ \E t \in 1..MaxThreads : sync[t].pc # "idle" /\ sync'[t] # sync[t]
        \/ del.pc # "idle" /\ del' # del)
           => messages' = messages /\ msg_cache' = msg_cache]_vars

\* C23: the list a sync that succeeds assigns is load_list of the partition
\* it stored to, read after its store_batch, and holds the rows that
\* partition held before; when the main loop displays the list, the list is
\* what load_list gives then for a partition of the account.
C23_ViewIsTheStoredList ==
    [][LET \* thread t reloads self.messages in this step, at the end of a sync
           Reloads(t) == /\ sync[t].pc \in {"logout", "quit"}
                         /\ sync'[t].pc = "idle"
                         /\ done'.signal = "complete"
           \* the main loop runs a queued _update_list in this step
           Displays == /\ after_queue # <<>> /\ Head(after_queue) = "_update_list"
                       /\ after_queue' = Tail(after_queue)
       IN /\ \A t \in 1..MaxThreads :
                 Reloads(t) =>
                     /\ messages' = load_list(emails', email, sync[t].folder)
                     /\ Range(load_list(emails, email, sync[t].folder))
                            \subseteq Range(messages')
          /\ Displays => \E f \in ComboValues : messages = load_list(emails, email, f)]_vars

\* ---- every sync ends with one signal -----------------------------------------
\* The syncs of a session in which the user presses the toolbar button; each
\* thread started runs on (its remote calls return or raise) and the main
\* loop runs the callbacks handed to it.
thread_step(t) ==
    \/ fetch_remote_raises(t)
    \/ fetch_imap_search(t)
    \/ fetch_imap_fetch(t)
    \/ fetch_imap_logout(t)
    \/ \E bad \in SUBSET (1..MaxRemote) : fetch_pop3_retr(t, bad)
    \/ fetch_pop3_quit(t)

mainloop_step ==
    \/ mainloop_update_list
    \/ mainloop_fetch_complete
    \/ mainloop_fetch_error
    \/ mainloop_fetch_mail

NextSignal ==
    \/ run
    \/ toolbar_fetch
    \/ mainloop_step
    \/ \E t \in 1..MaxThreads : thread_step(t)

SpecSignal ==
    /\ Init /\ [][NextSignal]_vars
    /\ WF_vars(mainloop_step)
    /\ \A t \in 1..MaxThreads : WF_vars(thread_step(t))

\* C24: every sync started by fetch_mail hands exactly one of _fetch_complete
\* and _fetch_error to the main loop when it ends, and after a sync is
\* started the main loop eventually runs such a signal, with the toolbar
\* buttons enabled again from then on until the next sync.
C24_EverySyncSignalsOnce ==
    /\ [][\A t \in 1..MaxThreads :
              (sync[t].pc # "idle" /\ sync'[t].pc = "idle") =>
                  LET new == SubSeq(after_queue', Len(after_queue) + 1, Len(after_queue'))
                  IN  Cardinality({i \in 1..Len(new) :
                                      new[i] \in {"_fetch_complete", "_fetch_error"}}) = 1]_vars
    /\ \A t \in 1..MaxThreads : (sync[t].pc # "idle") ~> (buttons = "normal")


\* ---- the uid of a POP3 message ---------------------------------------------
\* C25: in a POP3 sync the row downloaded for the message at sequence
\* number i has as uid the message's UIDL tag when the UIDL listing
\* succeeded and str(i) otherwise; and with UIDL a message the cache holds is
\* not downloaded again, whatever its sequence number is now.
C25_Pop3UidIsDurableTag ==
    [][\A t \in 1..MaxThreads :
           (protocol = "pop3" /\ Lists(t)) =>
               LET live == Live(remote["INBOX"])
                   \* the cache holds message n of INBOX
                   Cached(n) ==
                       \E r \in 1..Len(emails) :
                           /\ emails[r].account = email /\ emails[r].folder = "INBOX"
                           /\ emails[r].raw = RawOf("INBOX", n)
                   \* thread t has downloaded message n of INBOX in the step
                   Downloaded(n) ==
                       \E k \in 1..Len(sync'[t].new_messages) :
                           sync'[t].new_messages[k].raw = RawOf("INBOX", n)
               IN /\ \A i \in 1..Len(live) :
                         \A k \in 1..Len(sync'[t].new_messages) :
                             sync'[t].new_messages[k].raw = RawOf("INBOX", live[i])
                             => sync'[t].new_messages[k].uid =
                                    IF uidl THEN UidlTag[live[i]] ELSE str(i)
                  /\ uidl => \A i \in 1..Len(live) :
                                 Cached(live[i]) => ~Downloaded(live[i])]_vars

\* a POP3 sync with UIDL has passed over a cached message whose sequence
\* number is no longer the one it was stored under, and downloaded another
C25_Witness ==
    /\ protocol = "pop3" /\ uidl
    /\ \E t \in 1..MaxThreads :
           LET live == Live(remote["INBOX"])
           IN /\ sync[t].pc = "quit"
              /\ sync[t].new_messages # <<>>
              /\ \E i \in 1..Len(live) :
                     /\ live[i] # i
                     /\ \E r \in 1..Len(emails) :
                            /\ emails[r].account = email /\ emails[r].folder = "INBOX"
                            /\ emails[r].raw = RawOf("INBOX", live[i])
                     /\ UidlTag[live[i]] \notin sync[t].requested
                     /\ \A k \in 1..Len(sync[t].new_messages) :
                            sync[t].new_messages[k].raw # RawOf("INBOX", live[i])

\* ---- resolving a row --------------------------------------------------------
\* C26: _get_parsed_msg of a row returns the entry of _msg_cache when the
\* uid has one and leaves _msg_cache alone; otherwise, when load_raw returns
\* bytes, it returns them decoded and keeps them in _msg_cache; when load_raw
\* returns None it returns (None, None) and leaves _msg_cache alone.
C26_ResolvesFromMemoryThenStore ==
    [][detail'.uid # None =>
           LET uid == detail'.uid
               raw == load_raw(emails, email, current_folder, uid)
           IN IF uid \in DOMAIN msg_cache
              THEN detail'.content = msg_cache[uid] /\ msg_cache' = msg_cache
              ELSE IF raw # None
                   THEN detail'.content = raw /\ msg_cache' = Put(msg_cache, uid, raw)
                   ELSE detail'.content = None /\ msg_cache' = msg_cache]_vars

\* ---- the row an action takes ---------------------------------------------------
\* C27: when delete_mail acts, the uid it takes from
\* self.messages[self._selected_idx] is the uid of the row the user selected
\* last, also when self.messages was replaced since the selection.
C27_ActsOnSelectedRow ==
    [][(del.pc = "idle" /\ del'.pc = "start") => del'.uid = selected_uid]_vars

\* ---- the partition of the displayed rows ------------------------------------------
\* C28: when a displayed row is resolved, the folder _get_parsed_msg passes
\* to load_raw, self.current_folder, is the folder the row was loaded from:
\* self.messages holds rows of the partition (account, self.current_folder).
C28_RowsOfCurrentFolder ==
    [][LET \* the folder a row of self.messages was loaded from: the rows of
           \* INBOX and of Sent differ in their sender
           LoadedFrom(row) == IF row.from_addr = "a@x.com" THEN "INBOX" ELSE "Sent"
       IN detail'.uid # None
              => LoadedFrom(messages[selected_idx' + 1]) = current_folder]_vars

\* ---- the message a POP3 delete removes ---------------------------------------
\* C29: under POP3 the message a delete removed from the mailbox is the
\* message of the cached row it removes, and the list a sync reloads shows
\* no message twice.
C29_Pop3DeletesTheCachedMessage ==
    [][LET \* the _delete_thread removes the cached row in this step
           RemovesRow == del.pc = "cache" /\ del'.pc = "idle"
           \* thread t reloads self.messages in this step, at the end of a sync
           Reloaded(t) == /\ sync[t].pc = "quit"
                          /\ sync'[t].pc = "idle"
                          /\ done'.signal = "complete"
           \* a message is listed twice in rows
           ListedTwice(rows) ==
               \E i, j \in 1..Len(rows) : i < j /\ rows[i].subject = rows[j].subject
       IN protocol = "pop3" =>
              /\ RemovesRow =>
                     \A r \in 1..Len(emails) :
                         emails[r] \notin Range(emails') => emails[r].raw = del.removed
              /\ \A t \in 1..MaxThreads : Reloaded(t) => ~ListedTwice(messages')]_vars

(***************************************************************************)
(* Stored passwords: _get_or_create_key, _encrypt_password and             *)
(* _decrypt_password over the key file                                     *)
(***************************************************************************)

\* A str is a sequence of characters, a bytes value a sequence of bytes
\* written in hex; an ASCII character of a token is its own byte.
Chars == {"p", "eacute"}

\* str.encode(): UTF-8, two bytes for the accented letter
Utf8(c) ==
    IF c = "eacute" THEN <<"c3", "a9">>
    ELSE IF c = "p" THEN <<"70">>
    ELSE <<c>>

RECURSIVE encode(_)
encode(text) ==
    IF text = <<>> THEN <<>> ELSE Utf8(Head(text)) \o encode(Tail(text))

BadBytes == <<"UnicodeDecodeError">>

\* bytes.decode(): the text, or BadBytes where the bytes are not UTF-8
RECURSIVE decode(_)
decode(bytes) ==
    IF bytes = <<>> THEN <<>>
    ELSE IF bytes[1] = "c3"
    THEN IF Len(bytes) >= 2 /\ bytes[2] = "a9"
         THEN LET rest == decode(SubSeq(bytes, 3, Len(bytes)))
              IN IF rest = BadBytes THEN BadBytes ELSE <<"eacute">> \o rest
         ELSE BadBytes
    ELSE IF bytes[1] = "a9" THEN BadBytes
    ELSE LET rest == decode(Tail(bytes))
         IN IF rest = BadBytes THEN BadBytes
            ELSE <<IF bytes[1] = "70" THEN "p" ELSE bytes[1]>> \o rest

\* what Fernet.generate_key() can give
FernetKeys == {"k1", "k2"}

\* the initialisation vectors Fernet.encrypt draws
IVs == {"iv1", "iv2"}

\* the base64 text of one byte of ciphertext
B64(byte) ==
    IF byte = "70" THEN "cA" ELSE IF byte = "c3" THEN "ww" ELSE IF byte = "a9" THEN "qQ" ELSE "AA"

\* the byte a base64 text stands for, None for other text
UnB64(c) ==
    IF c = "cA" THEN "70" ELSE IF c = "ww" THEN "c3" ELSE IF c = "qQ" THEN "a9" ELSE None

\* the HMAC a key signs a token with
Hmac(key) == IF key = "k1" THEN "hmac1" ELSE "hmac2"

\* Fernet(key).encrypt(data): version, IV, ciphertext, HMAC under key
FernetEncrypt(key, iv, data) ==
    <<"gAAAAA", iv>> \o [i \in 1..Len(data) |-> B64(data[i])] \o <<Hmac(key)>>

InvalidToken == <<"InvalidToken">>

\* Fernet(key).decrypt(token): the data, or InvalidToken unless token is a
\* whole token signed with key
FernetDecrypt(key, token) ==
    IF /\ Len(token) >= 3
       /\ token[1] = "gAAAAA"
       /\ token[2] \in IVs
       /\ token[Len(token)] = Hmac(key)
       /\ \A i \in 3..(Len(token) - 1) : UnB64(token[i]) # None
    THEN [i \in 1..(Len(token) - 3) |-> UnB64(token[i + 2])]
    ELSE InvalidToken

\* always a new key, whatever the key file holds
new_key_each_time(key_file, fresh) ==
    [key |-> fresh, key_file |-> fresh]

\* _get_or_create_key(): the key of the key file; absent, the file is
\* written with the key just generated
get_or_create_key(key_file, fresh) ==
    IF key_file # None THEN [key |-> key_file, key_file |-> key_file]
    ELSE [key |-> fresh, key_file |-> fresh]

\* _encrypt_password(password); fresh and iv are what the generator gives
encrypt_password(password, key_file, fresh, iv) ==
    IF password = <<>> THEN [result |-> <<>>, key_file |-> key_file]
    ELSE LET k == get_or_create_key(key_file, fresh)
         IN [result |-> decode(FernetEncrypt(k.key, iv, encode(password))),
             key_file |-> k.key_file]

\* _decrypt_password(encrypted_password): every failure inside the try
\* gives the argument back
decrypt_password(encrypted_password, key_file, fresh) ==
    IF encrypted_password = <<>> THEN [result |-> <<>>, key_file |-> key_file]
    ELSE LET k == get_or_create_key(key_file, fresh)
             data == FernetDecrypt(k.key, encode(encrypted_password))
             text == IF data = InvalidToken THEN BadBytes ELSE decode(data)
         IN [result |-> IF text = BadBytes THEN encrypted_password ELSE text,
             key_file |-> k.key_file]

MaxPassword == 2

RECURSIVE TextsUpTo(_)
TextsUpTo(n) ==
    IF n = 0 THEN {<<>>}
    ELSE LET shorter == TextsUpTo(n - 1)
         IN shorter \cup {Append(t, c) : t \in shorter, c \in Chars}

\* the passwords a user types
Passwords == TextsUpTo(MaxPassword)

\* the tokens of the passwords
Tokens ==
    {decode(FernetEncrypt(key, iv, encode(p))) :
        key \in FernetKeys, iv \in IVs, p \in Passwords \ {<<>>}}

\* what a configuration file can hold as password: nothing, a password of
\* an older version, a token, or a token cut short
Stored ==
    Passwords \cup Tokens \cup {SubSeq(t, 1, Len(t) - 1) : t \in Tokens}

NoCrypto == [key_file |-> None, call |-> "none", arg |-> <<>>, result |-> <<>>]

InitCrypto ==
    /\ emails = <<>>
    /\ last_call = NoCall
    /\ first_written = [k \in {} |-> None]
    /\ inserted = <<>>
    /\ protocol = "imap"
    /\ uidl = FALSE
    /\ remote = <<>>
    /\ messages = <<>>
    /\ tree = <<>>
    /\ current_folder = "INBOX"
    /\ folder_var = "INBOX"
    /\ selected_idx = -1
    /\ selected_uid = None
    /\ buttons = "normal"
    /\ started = FALSE
    /\ after_queue = <<>>
    /\ sync = <<>>
    /\ nsync = 0
    /\ del = <<>>
    /\ done = <<>>
    /\ msg_cache = <<>>
    /\ search_var = <<>>
    /\ crypto \in {[NoCrypto EXCEPT !.key_file = k] : k \in FernetKeys \cup {None}}
    /\ conn = <<>>
    /\ http = <<>>
    /\ detail = <<>>

\* MailConfig.save encrypts the password it writes
Encrypt(password) ==
    /\ \E fresh \in FernetKeys, iv \in IVs :
          LET e == encrypt_password(password, crypto.key_file, fresh, iv)
          IN crypto' = [key_file |-> e.key_file, call |-> "encrypt",
                        arg |-> password, result |-> e.result]
    /\ UNCHANGED <<cache_vars, protocol, uidl, remote, messages, tree, current_folder,
                   folder_var, selected_idx, selected_uid, buttons, started, after_queue, sync, nsync,
                   del, done, msg_cache, search_var, conn, http, detail>>

\* MailConfig.load decrypts the password it reads
Decrypt(text) ==
    /\ \E fresh \in FernetKeys :
          LET d == decrypt_password(text, crypto.key_file, fresh)
          IN crypto' = [key_file |-> d.key_file, call |-> "decrypt",
                        arg |-> text, result |-> d.result]
    /\ UNCHANGED <<cache_vars, protocol, uidl, remote, messages, tree, current_folder,
                   folder_var, selected_idx, selected_uid, buttons, started, after_queue, sync, nsync,
                   del, done, msg_cache, search_var, conn, http, detail>>

NextCrypto ==
    \/ \E password \in Passwords : Encrypt(password)
    \/ \E text \in Stored : Decrypt(text)

SpecCrypto == InitCrypto /\ [][NextCrypto]_vars

\* C17: whatever the key file holds, decrypting what _encrypt_password made
\* of a non-empty password gives the password back, and decrypting a string
\* that is no valid token of the key in use gives the string back.
C17_RoundTripAndLegacy ==
    LET \* the strings that are a token of the key
        ValidTokens(key) ==
            {decode(FernetEncrypt(key, iv, encode(p))) : iv \in IVs, p \in Passwords}
    IN /\ \A p \in Passwords \ {<<>>}, fresh \in FernetKeys, iv \in IVs,
             later \in FernetKeys :
             LET e == encrypt_password(p, crypto.key_file, fresh, iv)
             IN decrypt_password(e.result, e.key_file, later).result = p
       /\ \A text \in Stored, fresh \in FernetKeys :
             LET d == decrypt_password(text, crypto.key_file, fresh)
             IN text \notin ValidTokens(d.key_file) => d.result = text
       /\ (crypto.call = "decrypt" /\ crypto.arg \notin ValidTokens(crypto.key_file))
             => crypto.result = crypto.arg

\* a token of a two-byte letter was decrypted to the password
C17_Witness ==
    /\ crypto.call = "decrypt"
    /\ \E iv \in IVs, p \in Passwords :
           crypto.arg = decode(FernetEncrypt(crypto.key_file, iv, encode(p)))
    /\ crypto.result # crypto.arg
    /\ \E i \in 1..Len(crypto.result) : crypto.result[i] = "eacute"

(***************************************************************************)
(* MsgClient (src/msgtool_client.py): _get and _post                       *)
(***************************************************************************)

\* self.server_url: with a scheme, or a bare host name
ServerUrls == {"http://localhost:8900", "localhost"}

Paths == {"/health", "/inbox"}

\* params of _get: None, or the dict urlencode makes a query string of
Params == {None, "limit=50"}

\* data of _post, as json.dumps writes it
PostData == {"{\"to\": \"bob\"}", "{}"}

\* the texts json.loads parses, and the values they parse to
JsonTexts == {"{\"status\": \"ok\"}", "{\"error\": \"denied\"}", "[]"}

\* what json.loads gives for a text that is not JSON
JSONDecodeError == [type |-> "JSONDecodeError", keys |-> {}]

json_loads(text) ==
    IF text = "{\"status\": \"ok\"}" THEN [type |-> "dict", keys |-> {"status"}]
    ELSE IF text = "{\"error\": \"denied\"}" THEN [type |-> "dict", keys |-> {"error"}]
    ELSE IF text = "[]" THEN [type |-> "list", keys |-> {}]
    ELSE JSONDecodeError

\* a body: its text and whether its bytes are UTF-8
Bodies ==
    [text : JsonTexts \cup {"<html>Bad Gateway</html>", ""}, utf8 : {TRUE}]
        \cup {[text |-> "<html>Acc\\xe8s refus\\xe9</html>", utf8 |-> FALSE]}

NoBody == [text |-> "", utf8 |-> TRUE]

\* what urlopen meets: a response, an HTTPError with a body to read (fp) or
\* without, or a failure below HTTP
Responses ==
    [kind : {"ok", "HTTPError"}, fp : {TRUE}, body : Bodies]
        \cup {[kind |-> k, fp |-> FALSE, body |-> NoBody] : k \in {"HTTPError", "URLError", "timeout"}}

NoValue == [type |-> "none", keys |-> {}]

Returned(value) == [raised |-> None, value |-> value]

Raised(exception) == [raised |-> exception, value |-> NoValue]

ErrorDict == [type |-> "dict", keys |-> {"error"}]

\* the except HTTPError clause: e.read().decode() stands outside the inner
\* try, and what it raises leaves the function
http_error(response) ==
    IF response.fp /\ ~response.body.utf8 THEN Raised("UnicodeDecodeError")
    ELSE LET body == IF response.fp THEN response.body.text ELSE ""
         IN IF json_loads(body) # JSONDecodeError THEN Returned(json_loads(body))
            ELSE Returned(ErrorDict)

\* the try statement of _get and _post
urlopen_try(response) ==
    IF response.kind = "ok"
    THEN IF response.body.utf8 /\ json_loads(response.body.text) # JSONDecodeError
         THEN Returned(json_loads(response.body.text))
         ELSE Returned(ErrorDict)
    ELSE IF response.kind = "HTTPError" THEN http_error(response)
    ELSE Returned(ErrorDict)

\* urllib.request.Request(url): ValueError for a URL without a scheme,
\* before the try statement is entered
Request(url) ==
    IF url[1] = "localhost" THEN Raised("ValueError") ELSE Returned(NoValue)

\* MsgClient._get(path, params)
get(server_url, path, params, response) ==
    LET url == IF params # None THEN <<server_url, path, "?", params>> ELSE <<server_url, path>>
        req == Request(url)
    IN IF req.raised # None THEN req ELSE urlopen_try(response)

\* MsgClient._post(path, data)
post(server_url, path, data, response) ==
    LET url == <<server_url, path>>
        req == Request(url)
    IN IF req.raised # None THEN req ELSE urlopen_try(response)

NoRequest == [call |-> "none", url |-> <<>>, sent |-> None,
              response |-> [kind |-> "none", fp |-> FALSE, body |-> NoBody],
              raised |-> None, value |-> NoValue]

InitMsg ==
    /\ emails = <<>>
    /\ last_call = NoCall
    /\ first_written = [k \in {} |-> None]
    /\ inserted = <<>>
    /\ protocol = "imap"
    /\ uidl = FALSE
    /\ remote = <<>>
    /\ messages = <<>>
    /\ tree = <<>>
    /\ current_folder = "INBOX"
    /\ folder_var = "INBOX"
    /\ selected_idx = -1
    /\ selected_uid = None
    /\ buttons = "normal"
    /\ started = FALSE
    /\ after_queue = <<>>
    /\ sync = <<>>
    /\ nsync = 0
    /\ del = <<>>
    /\ done = <<>>
    /\ msg_cache = <<>>
    /\ search_var = <<>>
    /\ crypto = <<>>
    /\ conn = <<>>
    /\ http = NoRequest
    /\ detail = <<>>

Get(server_url, path, params, response) ==
    /\ LET r == get(server_url, path, params, response)
       IN http' = [call |-> "_get", url |-> <<server_url, path>>, sent |-> params,
                   response |-> response, raised |-> r.raised, value |-> r.value]
    /\ UNCHANGED <<cache_vars, protocol, uidl, remote, messages, tree, current_folder,
                   folder_var, selected_idx, selected_uid, buttons, started, after_queue, sync, nsync,
                   del, done, msg_cache, search_var, crypto, conn, detail>>

Post(server_url, path, data, response) ==
    /\ LET r == post(server_url, path, data, response)
       IN http' = [call |-> "_post", url |-> <<server_url, path>>, sent |-> data,
                   response |-> response, raised |-> r.raised, value |-> r.value]
    /\ UNCHANGED <<cache_vars, protocol, uidl, remote, messages, tree, current_folder,
                   folder_var, selected_idx, selected_uid, buttons, started, after_queue, sync, nsync,
                   del, done, msg_cache, search_var, crypto, conn, detail>>

NextMsg ==
    \/ \E u \in ServerUrls, p \in Paths, q \in Params, r \in Responses : Get(u, p, q, r)
    \/ \E u \in ServerUrls, p \in Paths, d \in PostData, r \in Responses : Post(u, p, d, r)

SpecMsg == InitMsg /\ [][NextMsg]_vars

\* C18: a call of _get or _post raises nothing; it returns the parsed body of
\* a successful response, the parsed body of an HTTP error whose body is
\* JSON, and a dict with the key 'error' in every other case.
C18_NeverRaises ==
    http.call # "none" =>
        /\ http.raised = None
        /\ LET body == http.response.body
               parsed == IF body.utf8 THEN json_loads(body.text) ELSE JSONDecodeError
           IN IF http.response.kind \in {"ok", "HTTPError"} /\ parsed # JSONDecodeError
              THEN http.value = parsed
              ELSE http.value.type = "dict" /\ "error" \in http.value.keys

(***************************************************************************)
(* MailCache under two threads: self.lock around each operation            *)
(***************************************************************************)

\* the thread of a sync or a delete, which writes, and a thread that reads
CacheThreads == {"fetch", "reader"}

ReadOps == {"load_list", "get_uids", "load_raw"}

IdleCall == [pc |-> "idle", op |-> "none", rows |-> <<>>, uid |-> None]

\* self.lock, the call of each thread, and history: the uids the store_batch
\* called last was to add (new), whether the reader's call overlapped it,
\* and the uids the reader's call returned (seen, when returned holds);
\* closed tells that self.conn.close() was called
NoCalls ==
    [lock |-> "free", call |-> [t \in CacheThreads |-> IdleCall],
     new |-> {}, overlap |-> FALSE, seen |-> {}, returned |-> FALSE, closed |-> FALSE]

InitLock ==
    /\ emails = <<>>
    /\ last_call = NoCall
    /\ first_written = [k \in {} |-> None]
    /\ inserted = <<>>
    /\ protocol = "imap"
    /\ uidl = FALSE
    /\ remote = <<>>
    /\ messages = <<>>
    /\ tree = <<>>
    /\ current_folder = "INBOX"
    /\ folder_var = "INBOX"
    /\ selected_idx = -1
    /\ selected_uid = None
    /\ buttons = "normal"
    /\ started = FALSE
    /\ after_queue = <<>>
    /\ sync = <<>>
    /\ nsync = 0
    /\ del = <<>>
    /\ done = <<>>
    /\ msg_cache = <<>>
    /\ search_var = <<>>
    /\ crypto = <<>>
    /\ conn = NoCalls
    /\ http = <<>>
    /\ detail = <<>>

\* the fetch thread calls store_batch(email, "INBOX", batch) and reaches
\* "with self.lock"
call_store_batch(batch) ==
    /\ conn.call["fetch"].pc = "idle"
    /\ batch # <<>>
    /\ Cardinality(get_uids(emails, email, "INBOX") \cup {batch[i].uid : i \in 1..Len(batch)})
           <= MaxRows
    /\ conn' = [conn EXCEPT
                   !.call["fetch"] =
                       [pc |-> "wait", op |-> "store_batch",
                        rows |-> [i \in 1..Len(batch) |-> TableRow(email, "INBOX", batch[i])],
                        uid |-> None],
                   !.new = {batch[i].uid : i \in 1..Len(batch)}
                               \ get_uids(emails, email, "INBOX"),
                   !.overlap = conn.call["reader"].pc # "idle"]
    /\ UNCHANGED <<cache_vars, protocol, uidl, remote, messages, tree, current_folder,
                   folder_var, selected_idx, selected_uid, buttons, started, after_queue, sync, nsync,
                   del, done, msg_cache, search_var, crypto, http, detail>>

\* the delete thread calls delete(email, "INBOX", uid)
call_delete(uid) ==
    /\ conn.call["fetch"].pc = "idle"
    /\ conn' = [conn EXCEPT
                   !.call["fetch"] = [pc |-> "wait", op |-> "delete", rows |-> <<>>,
                                      uid |-> uid],
                   !.new = {},
                   !.overlap = FALSE]
    /\ UNCHANGED <<cache_vars, protocol, uidl, remote, messages, tree, current_folder,
                   folder_var, selected_idx, selected_uid, buttons, started, after_queue, sync, nsync,
                   del, done, msg_cache, search_var, crypto, http, detail>>

\* the reader calls load_list, get_uids or load_raw for (email, "INBOX")
call_read(op, uid) ==
    /\ conn.call["reader"].pc = "idle"
    /\ conn' = [conn EXCEPT
                   !.call["reader"] = [pc |-> "wait", op |-> op, rows |-> <<>>, uid |-> uid],
                   !.overlap = /\ conn.call["fetch"].pc # "idle"
                               /\ conn.call["fetch"].op = "store_batch",
                   !.returned = FALSE]
    /\ UNCHANGED <<cache_vars, protocol, uidl, remote, messages, tree, current_folder,
                   folder_var, selected_idx, selected_uid, buttons, started, after_queue, sync, nsync,
                   del, done, msg_cache, search_var, crypto, http, detail>>

\* with self.lock: the thread goes on when the lock is free, and holds it
acquire(t) ==
    /\ conn.call[t].pc = "wait"
    /\ conn.lock = "free"
    /\ conn' = [conn EXCEPT !.lock = t, !.call[t].pc = "locked"]
    /\ UNCHANGED <<cache_vars, protocol, uidl, remote, messages, tree, current_folder,
                   folder_var, selected_idx, selected_uid, buttons, started, after_queue, sync, nsync,
                   del, done, msg_cache, search_var, crypto, http, detail>>

\* executemany runs the INSERT for the next parameter row; when the row
\* cannot be bound the exception leaves the with block, which releases the
\* lock, with neither commit nor rollback; on a closed connection execute
\* raises sqlite3.ProgrammingError
insert_row ==
    /\ conn.call["fetch"].pc = "locked"
    /\ conn.call["fetch"].op = "store_batch"
    /\ conn.call["fetch"].rows # <<>>
    /\ LET r == insert_or_ignore(emails, Head(conn.call["fetch"].rows))
       IN IF r.raised \/ conn.closed
          THEN /\ conn' = [conn EXCEPT !.lock = "free", !.call["fetch"] = IdleCall]
               /\ emails' = emails
          ELSE /\ conn' = [conn EXCEPT !.call["fetch"].rows = Tail(@)]
               /\ emails' = r.db
    /\ UNCHANGED <<last_call, first_written, inserted, protocol, uidl, remote, messages,
                   tree, current_folder, folder_var, selected_idx, selected_uid, buttons, started,
                   after_queue, sync, nsync, del, done, msg_cache, search_var, crypto, http,
                   detail>>

\* self.conn.commit() of store_batch, the end of the with block
commit_store ==
    /\ conn.call["fetch"].pc = "locked"
    /\ conn.call["fetch"].op = "store_batch"
    /\ conn.call["fetch"].rows = <<>>
    /\ conn' = [conn EXCEPT !.lock = "free", !.call["fetch"] = IdleCall]
    /\ UNCHANGED <<cache_vars, protocol, uidl, remote, messages, tree, current_folder,
                   folder_var, selected_idx, selected_uid, buttons, started, after_queue, sync, nsync,
                   del, done, msg_cache, search_var, crypto, http, detail>>

\* the DELETE statement and commit of delete, the end of the with block
\* (sqlite3.ProgrammingError on a closed connection)
run_delete ==
    /\ conn.call["fetch"].pc = "locked"
    /\ conn.call["fetch"].op = "delete"
    /\ emails' = IF conn.closed THEN emails
                 ELSE delete(emails, email, "INBOX", conn.call["fetch"].uid)
    /\ conn' = [conn EXCEPT !.lock = "free", !.call["fetch"] = IdleCall]
    /\ UNCHANGED <<last_call, first_written, inserted, protocol, uidl, remote, messages,
                   tree, current_folder, folder_var, selected_idx, selected_uid, buttons, started,
                   after_queue, sync, nsync, del, done, msg_cache, search_var, crypto, http,
                   detail>>

\* the SELECT of the reader's call and its fetchall / fetchone, the end of
\* the with block (sqlite3.ProgrammingError on a closed connection)
run_select ==
    /\ conn.call["reader"].pc = "locked"
    /\ LET op == conn.call["reader"].op
           rows == load_list(emails, email, "INBOX")
       IN conn' = [conn EXCEPT
                      !.lock = "free",
                      !.call["reader"] = IdleCall,
                      !.seen = IF conn.closed THEN {}
                               ELSE IF op = "load_list" THEN {rows[i].uid : i \in 1..Len(rows)}
                               ELSE IF op = "get_uids" THEN get_uids(emails, email, "INBOX")
                               ELSE {},
                      !.returned = op # "load_raw" /\ ~conn.closed]
    /\ UNCHANGED <<cache_vars, protocol, uidl, remote, messages, tree, current_folder,
                   folder_var, selected_idx, selected_uid, buttons, started, after_queue, sync, nsync,
                   del, done, msg_cache, search_var, crypto, http, detail>>

NextLock ==
    \/ \E batch \in HeaderBatches : call_store_batch(batch)
    \/ \E uid \in Uids : call_delete(uid)
    \/ \E op \in ReadOps, uid \in Uids : call_read(op, uid)
    \/ \E t \in CacheThreads : acquire(t)
    \/ insert_row
    \/ commit_store
    \/ run_delete
    \/ run_select

SpecLock == InitLock /\ [][NextLock]_vars

\* C22: at most one thread is inside an operation of the store, and what a
\* list read that overlapped a store_batch returns holds all of the rows that
\* store_batch was to add, or none of them.
C22_ExclusiveAndAllOrNone ==
    /\ Cardinality({t \in CacheThreads : conn.call[t].pc = "locked"}) <= 1
    /\ (conn.returned /\ conn.overlap)
           => (conn.new \subseteq conn.seen \/ conn.new \cap conn.seen = {})

\* ---- closing the window ----------------------------------------------------
\* _on_close on the main thread: mail_cache.close() is self.conn.close(),
\* outside self.lock; the daemon threads run on until the interpreter exits
on_close ==
    /\ ~conn.closed
    /\ conn' = [conn EXCEPT !.closed = TRUE]
    /\ UNCHANGED <<cache_vars, protocol, uidl, remote, messages, tree, current_folder,
                   folder_var, selected_idx, selected_uid, buttons, started, after_queue,
                   sync, nsync, del, done, msg_cache, search_var, crypto, http, detail>>

NextClose ==
    \/ NextLock
    \/ on_close

SpecClose == InitLock /\ [][NextClose]_vars

\* C30: no operation of the store runs on the connection while close is
\* called or after it: once self.conn is closed no thread is inside load_list,
\* load_raw, get_uids, store_batch or delete.
C30_NoStoreOperationAfterClose ==
    conn.closed => \A t \in CacheThreads : conn.call[t].pc # "locked"

====
